---- MODULE Spec2Model ----
(***************************************************************************)
(* A model of the REDCap client of src/redcap/methods: the lazily          *)
(* memoized project attributes of Base, its payload builders and return    *)
(* type lookup, and the Metadata and Files operations built on them.       *)
(*                                                                         *)
(* One client instance is modelled.  Every operation runs to completion    *)
(* in one step (the code is synchronous); the step records the call, the   *)
(* requests it sent and how it ended in the variable `call`.  SpecThreads  *)
(* is the exception: there several threads read the attributes of the one  *)
(* client and each step is one statement of one thread.                    *)
(***************************************************************************)
EXTENDS Integers, Sequences, FiniteSets, TLC

VARIABLES
    _url,              \* Base._url
    _token,            \* Base._token
    _metadata,         \* Base._metadata          (None or Some(list of rows))
    _field_names,      \* Base._field_names       (None or Some(list of names))
    _def_field,        \* Base._def_field         (None or Some(name))
    _is_longitudinal,  \* Base._is_longitudinal   (None or Some(boolean))
    call,              \* the last call made on the client and its outcome
    metaReqs,          \* metadata requests issued so far by the metadata property
    probeReqs,         \* formEventMapping requests issued so far by is_longitudinal
    threads            \* the accesses in progress when threads share the client

vars == <<_url, _token, _metadata, _field_names, _def_field, _is_longitudinal,
          call, metaReqs, probeReqs, threads>>

-----------------------------------------------------------------------------
(* Bounds of the model *)

\* cap on the requests counted by metaReqs and probeReqs together
MaxRequests == 3
\* longest content-type header explored character by character
MaxHeaderLen == 4
\* longest url given to the constructor
MaxUrlLen == 6
\* longest token given to the constructor
MaxTokenLen == 33
\* threads that share the client, one access each
NumThreads == 3

-----------------------------------------------------------------------------
(* Python values *)

\* an attribute that is None is the empty tuple, a set one a 1-tuple
None == << >>
Some(x) == << x >>
\* None for an optional string argument
NoneStr == "None"
\* an argument left out of the call
Omitted == "<omitted>"
\* no exception: the call returned
NoExc == "none"
\* Python truthiness of an optional string
Truthy(s) == s \notin {NoneStr, ""}

Range(s) == {s[i] : i \in 1..Len(s)}

\* dict[key] = value
SetItem(d, k, v) == (k :> v) @@ d

-----------------------------------------------------------------------------
(* The remote project as the client sees it *)

Row(name, type) == [field_name |-> name, field_type |-> type]

\* data dictionaries the server may return
Metadatas ==
    { << >>,
      << Row("record_id", "text"), Row("upload_field", "file") >> }

\* What _RCRequest.execute does with one request: it returns the decoded
\* body, raises RedcapError (the server answered with an error; the reason
\* is in the body), or raises some other exception (transport, decoding).
\* headers: the content-type header of the response, None when it has none.
Response(kind, body, reason, headers) ==
    [kind |-> kind, body |-> body, reason |-> reason, headers |-> headers]

Responses ==
    { Response("ok", m, "", None) : m \in Metadatas }
    \cup { Response("RedcapError", << >>, r, None) : r \in {"no_events", "other"} }
    \cup { Response("ConnectionError", << >>, "", None) }

ValidUrl == "https://redcap.example.edu/api/"
ValidToken == "0123456789ABCDEF0123456789ABCDEF"
Tokens == { ValidToken, "FEDCBA9876543210FEDCBA9876543210" }

-----------------------------------------------------------------------------
(* The client object and the run of a piece of its code *)

Client == [_url |-> _url, _token |-> _token, _metadata |-> _metadata,
           _field_names |-> _field_names, _def_field |-> _def_field,
           _is_longitudinal |-> _is_longitudinal]

\* A run: c, the client as it is now; rs, the responses the remote side
\* still has ready; sent, the requests sent so far, in order; exc, the
\* exception raised, or NoExc; val, the value returned.
Result(c, exc, val, sent, rs) ==
    [c |-> c, exc |-> exc, val |-> val, sent |-> sent, rs |-> rs]

\* the run of a call that starts on client c
Start(c, rs) == Result(c, NoExc, None, << >>, rs)

\* the run st goes on and returns val / raises exc
Return(st, val) == Result(st.c, NoExc, val, st.sent, st.rs)
Raise(st, exc) == Result(st.c, exc, None, st.sent, st.rs)

\* the run st with self.<attr> = val
SetAttr(st, attr, val) == [st EXCEPT !.c = [st.c EXCEPT ![attr] = Some(val)]]

\* the statements Rest(r) that follow a call with run r: an exception of
\* the call propagates and they are not run
Try(r, Rest(_)) == IF r.exc # NoExc THEN r ELSE Rest(r)

\* the statements Rest(r) that follow a call, run however it ended
Then(r, Rest(_)) == Rest(r)

Request(by, payload, return_type, resp) ==
    [by |-> by, payload |-> payload, return_type |-> return_type, resp |-> resp]

-----------------------------------------------------------------------------
(* Base: payloads and the request *)

\* if cond: d[k] = v
SetItemIf(cond, d, k, v) == IF cond THEN SetItem(d, k, v) ELSE d

\* _initialize_payload setting the type key whatever the content
_initialize_payload_typed(c, content, format_type, return_format_type, record_type) ==
    SetItem(
        SetItemIf(Truthy(return_format_type),
            SetItemIf(Truthy(format_type),
                ("token" :> c._token) @@ ("content" :> content),
                "format", IF format_type = "df" THEN "csv" ELSE format_type),
            "returnFormat", return_format_type),
        "type", IF record_type = Omitted THEN "flat" ELSE record_type)

\* payload = {"token": self.token, "content": content}, then the keys
\* format, returnFormat and type, each under its condition
_initialize_payload(c, content, format_type, return_format_type, record_type) ==
    SetItemIf(content = "record",
        SetItemIf(Truthy(return_format_type),
            SetItemIf(Truthy(format_type),
                ("token" :> c._token) @@ ("content" :> content),
                "format", IF format_type = "df" THEN "csv" ELSE format_type),
            "returnFormat", return_format_type),
        "type", IF record_type = Omitted THEN "flat" ELSE record_type)

\* the parameters _call_api declares besides self
CallApiParams == {"payload", "return_type", "file"}

\* rcr.execute(...): the request goes out and the next response decides.
\* return_headers = return_type == "file_map": the headers come with the body
Execute(st, req, resp) ==
    Result(st.c,
           IF resp.kind = "ok" THEN NoExc ELSE resp.kind,
           IF resp.kind # "ok" THEN None
           ELSE IF req.return_type = "file_map" THEN << resp.body, resp.headers >>
           ELSE resp.body,
           Append(st.sent, req),
           Tail(st.rs))

\* One POST to the API.  keywords: the names the caller passes by keyword;
\* a name _call_api does not declare makes the call itself a TypeError and
\* nothing is sent.  by: the caller, recorded with the request.
_call_api(st, keywords, payload, return_type, file, by) ==
    IF ~(keywords \subseteq CallApiParams)
      THEN Raise(st, "TypeError")
      ELSE Execute(st, Request(by, payload, return_type, Head(st.rs)), Head(st.rs))

-----------------------------------------------------------------------------
(* Base: construction *)

\* an attribute the instance does not have (no assignment has run yet)
Unbound == << "<unbound>" >>

\* the instance __init__ receives: no attribute is bound
Blank == [_url |-> Unbound, _token |-> Unbound, _metadata |-> Unbound,
          _field_names |-> Unbound, _def_field |-> Unbound,
          _is_longitudinal |-> Unbound]

\* "/api/"
UrlExpectedLast5 == << "/", "a", "p", "i", "/" >>

\* url[-5:]: the last five characters, the whole url when it is shorter
Last5(url) == SubSeq(url, IF Len(url) > 5 THEN Len(url) - 4 ELSE 1, Len(url))

\* _validate_url_and_token checking the url only
_validate_url_only(st, url, token) ==
    IF Last5(url) # UrlExpectedLast5
      THEN Raise(st, "AssertionError")
      ELSE Return(st, None)

\* the two assert statements, the url's first
_validate_url_and_token(st, url, token) ==
    IF Last5(url) # UrlExpectedLast5
      THEN Raise(st, "AssertionError")
    ELSE IF Len(token) # 32
      THEN Raise(st, "AssertionError")
    ELSE Return(st, None)

\* self._url = url ... self._is_longitudinal = None (verify_ssl, which no
\* operation modelled here reads, is left out)
Assigned(st, url, token) ==
    [st EXCEPT !.c = [_url |-> url, _token |-> token, _metadata |-> None,
                      _field_names |-> None, _def_field |-> None,
                      _is_longitudinal |-> None]]

\* Base.__init__: validate, then bind the attributes
__init__(st, url, token) ==
    Try(_validate_url_and_token(st, url, token),
        LAMBDA r : Return(Assigned(r, url, token), None))

-----------------------------------------------------------------------------
(* Base: the lazily loaded project attributes *)

\* metadata caching an empty data dictionary when its request fails
metadata_cached_on_failure(st) ==
    IF st.c._metadata = None
      THEN Then(_call_api(st, {},
                          _initialize_payload(st.c, "metadata", "json", NoneStr, Omitted),
                          "json", NoneStr, "metadata"),
                LAMBDA r :
                    IF r.exc # NoExc
                      THEN Raise(SetAttr(r, "_metadata", << >>), r.exc)
                      ELSE Return(SetAttr(r, "_metadata", r.val), r.val))
      ELSE Return(st, st.c._metadata[1])

metadata(st) ==
    IF st.c._metadata = None
      THEN Try(_call_api(st, {},
                         _initialize_payload(st.c, "metadata", "json", NoneStr, Omitted),
                         "json", NoneStr, "metadata"),
               LAMBDA r : Return(SetAttr(r, "_metadata", r.val), r.val))
      ELSE Return(st, st.c._metadata[1])

\* str([...][0]), or "" when the list is empty (the IndexError is caught)
FirstOrEmpty(st, values) ==
    IF Len(values) = 0 THEN Return(st, "") ELSE Return(st, values[1])

\* the list [row[key] for row in rows]
Column(rows, key) == [i \in 1..Len(rows) |-> rows[i][key]]

\* with a field_name: the key's value in the first row of that field;
\* without: the key's column
_filter_metadata(st, key, field_name) ==
    Try(metadata(st),
        LAMBDA m :
            IF Truthy(field_name)
              THEN FirstOrEmpty(m,
                       Column(SelectSeq(m.val, LAMBDA row : row.field_name = field_name),
                              key))
              ELSE Return(m, Column(m.val, key)))

\* field_names computing the list without keeping it
field_names_not_kept(st) ==
    IF st.c._field_names = None
      THEN _filter_metadata(st, "field_name", NoneStr)
      ELSE Return(st, st.c._field_names[1])

field_names(st) ==
    IF st.c._field_names = None
      THEN Try(_filter_metadata(st, "field_name", NoneStr),
               LAMBDA r : Return(SetAttr(r, "_field_names", r.val), r.val))
      ELSE Return(st, st.c._field_names[1])

def_field(st) ==
    IF st.c._def_field = None
      THEN Try(field_names(st),
               LAMBDA r :
                   IF Len(r.val) = 0
                     THEN Raise(r, "IndexError")
                     ELSE Return(SetAttr(r, "_def_field", r.val[1]), r.val[1]))
      ELSE Return(st, st.c._def_field[1])

\* the request of is_longitudinal
Probe(st) ==
    _call_api(st, {},
              _initialize_payload(st.c, "formEventMapping", "json", NoneStr, Omitted),
              "json", NoneStr, "is_longitudinal")

\* is_longitudinal without the except clause: every failure propagates
is_longitudinal_no_except(st) ==
    IF st.c._is_longitudinal = None
      THEN Try(Probe(st),
               LAMBDA r : Return(SetAttr(r, "_is_longitudinal", TRUE), TRUE))
      ELSE Return(st, st.c._is_longitudinal[1])

\* is_longitudinal probing again although the flag is set
is_longitudinal_unguarded(st) ==
    Then(Probe(st),
         LAMBDA r :
             IF r.exc = NoExc
               THEN Return(SetAttr(r, "_is_longitudinal", TRUE), TRUE)
             ELSE IF r.exc = "RedcapError"
               THEN Return(SetAttr(r, "_is_longitudinal", FALSE), FALSE)
             ELSE r)

is_longitudinal(st) ==
    IF st.c._is_longitudinal = None
      THEN Then(Probe(st),
                LAMBDA r :
                    IF r.exc = NoExc
                      THEN Return(SetAttr(r, "_is_longitudinal", TRUE), TRUE)
                    ELSE IF r.exc = "RedcapError"
                      THEN Return(SetAttr(r, "_is_longitudinal", FALSE), FALSE)
                    ELSE r)
      ELSE Return(st, st.c._is_longitudinal[1])

-----------------------------------------------------------------------------
(* Base: the return type of a request *)

Returned(val) == [exc |-> NoExc, val |-> val]
Raised(exc) == [exc |-> exc, val |-> NoneStr]

\* _lookup_return_type testing the import subtype before the request type
_lookup_return_type_subtype_first(format_type, request_type, import_records_format) ==
    LET rt == IF request_type = Omitted THEN "export" ELSE request_type
    IN  IF format_type = "json"
          THEN IF import_records_format \in {"count", "auto_ids"}
                 THEN Returned("count_dict")
               ELSE IF import_records_format = "ids"
                 THEN Returned("ids_list")
               ELSE IF import_records_format = "nothing"
                 THEN Returned("empty_json")
               ELSE IF rt = "export"
                 THEN Returned("json")
               ELSE IF rt \in {"import", "delete"} /\ ~Truthy(import_records_format)
                 THEN Returned("int")
               ELSE Raised("UnboundLocalError")
        ELSE IF format_type \in {"csv", "xml", "df"}
          THEN Returned("str")
        ELSE Raised("ValueError")

\* A branch that assigns nothing leaves return_type unbound, and the final
\* `return return_type` raises UnboundLocalError.
_lookup_return_type(format_type, request_type, import_records_format) ==
    LET rt == IF request_type = Omitted THEN "export" ELSE request_type
    IN  IF format_type = "json"
          THEN IF rt = "export"
                 THEN Returned("json")
               ELSE IF rt \in {"import", "delete"} /\ ~Truthy(import_records_format)
                 THEN Returned("int")
               ELSE IF import_records_format \in {"count", "auto_ids"}
                 THEN Returned("count_dict")
               ELSE IF import_records_format = "ids"
                 THEN Returned("ids_list")
               ELSE IF import_records_format = "nothing"
                 THEN Returned("empty_json")
               ELSE Raised("UnboundLocalError")
        ELSE IF format_type \in {"csv", "xml", "df"}
          THEN Returned("str")
        ELSE Raised("ValueError")

-----------------------------------------------------------------------------
(* Base: the payload of an import *)

\* A data frame: its column names, and for each row its labels (the index)
\* and its cells.
Frame(columns, index, rows) == [columns |-> columns, index |-> index, rows |-> rows]

\* DataFrame.to_csv(buf, index=..., index_label=...): the header line and the
\* data lines, each a list of cells.  With the index, every line starts
\* with the row's labels and the header with index_label.
ToCsv(frame, csv_kwargs) ==
    IF csv_kwargs.index
      THEN [header |-> csv_kwargs.index_label \o frame.columns,
            lines  |-> [i \in 1..Len(frame.rows) |-> frame.index[i] \o frame.rows[i]]]
      ELSE [header |-> frame.columns,
            lines  |-> frame.rows]

\* json.dumps(to_import, separators=(",", ":")): the compact JSON text of a value
JsonDumps(v) == [json |-> v, separators |-> << ",", ":" >>]

\* payload["data"] = data; payload["format"] = format
WithData(payload, data, format) ==
    SetItem(SetItem(payload, "data", data), "format", format)

\* the csv_kwargs of a frame of records, were they the same for every project
RecordCsvKwargsOneLabel(longitudinal, id_field) ==
    [index |-> TRUE, index_label |-> << id_field >>]

\* the csv_kwargs of a frame of records
RecordCsvKwargs(longitudinal, id_field) ==
    IF longitudinal
      THEN [index |-> TRUE, index_label |-> << id_field, "redcap_event_name" >>]
      ELSE [index |-> TRUE, index_label |-> << id_field >>]

\* The payload of content data_type, then the data: a frame as csv (its
\* row labels by data_type and, for records, by self.is_longitudinal and
\* self.def_field, read in this order), a list as JSON, text as it is.
\* A data_type that is neither record nor metadata leaves csv_kwargs unbound.
_initialize_import_payload(st, to_import, import_format, return_format_type, data_type) ==
    IF import_format = "df"
      THEN IF data_type = "record"
             THEN Try(is_longitudinal(st),
                      LAMBDA l :
                          Try(def_field(l),
                              LAMBDA d :
                                  Return(d, WithData(
                                      _initialize_payload(st.c, data_type, NoneStr,
                                                          return_format_type, Omitted),
                                      ToCsv(to_import, RecordCsvKwargs(l.val, d.val)),
                                      "csv"))))
           ELSE IF data_type = "metadata"
             THEN Return(st, WithData(
                      _initialize_payload(st.c, data_type, NoneStr,
                                          return_format_type, Omitted),
                      ToCsv(to_import, [index |-> FALSE, index_label |-> << >>]),
                      "csv"))
           ELSE Raise(st, "UnboundLocalError")
    ELSE IF import_format = "json"
      THEN Return(st, WithData(
               _initialize_payload(st.c, data_type, NoneStr, return_format_type, Omitted),
               JsonDumps(to_import), import_format))
    ELSE Return(st, WithData(
             _initialize_payload(st.c, data_type, NoneStr, return_format_type, Omitted),
             to_import, import_format))

-----------------------------------------------------------------------------
(* Python strings, as sequences of one-character strings *)

Contains(s, ch) == \E i \in 1..Len(s) : s[i] = ch

\* the index of the first ch in s (s contains ch)
Find(s, ch) == CHOOSE i \in 1..Len(s) : s[i] = ch /\ \A j \in 1..(i - 1) : s[j] # ch

\* s.split(sep) for a one-character sep
RECURSIVE Split(_, _)
Split(s, sep) ==
    IF ~Contains(s, sep)
      THEN << s >>
      ELSE LET i == Find(s, sep)
           IN  << SubSeq(s, 1, i - 1) >> \o Split(SubSeq(s, i + 1, Len(s)), sep)

\* s.strip(): without leading and trailing blanks
RECURSIVE Strip(_)
Strip(s) ==
    IF Len(s) = 0 THEN s
    ELSE IF s[1] = " " THEN Strip(Tail(s))
    ELSE IF s[Len(s)] = " " THEN Strip(SubSeq(s, 1, Len(s) - 1))
    ELSE s

\* s.replace(ch, "")
Remove(s, ch) == SelectSeq(s, LAMBDA x : x # ch)

\* dict(pairs): a later pair replaces an earlier one of the same key
Dict(pairs) ==
    [k \in {pairs[i][1] : i \in 1..Len(pairs)} |->
        LET last == CHOOSE i \in 1..Len(pairs) :
                        /\ pairs[i][1] = k
                        /\ \A j \in (i + 1)..Len(pairs) : pairs[j][1] # k
        IN  pairs[last][2]]

-----------------------------------------------------------------------------
(* Files *)

\* is_field or is_file
IsFieldOrFile(field, names, type) ==
    field \in Range(names) \/ (Truthy(field) /\ type = "file")

\* is_field and is_file of _check_file_field; without a field_name
\* _filter_metadata returns a list, which never equals "file"
IsFileField(field, names, type) ==
    field \in Range(names) /\ Truthy(field) /\ type = "file"

\* raises ValueError unless field is a project field of type file
_check_file_field(st, field) ==
    Try(field_names(st),
        LAMBDA f :
            Try(_filter_metadata(f, "field_type", field),
                LAMBDA g :
                    IF ~IsFileField(field, f.val, g.val)
                      THEN Raise(g, "ValueError")
                      ELSE Return(g, None)))

\* the (key, value) pairs of the segments that have an '='
KeyValues(segments) ==
    [i \in 1..Len(segments) |->
        << Split(segments[i], "=")[1], Remove(Split(segments[i], "=")[2], "\"") >>]

\* headers["content-type"].split(";"), each part stripped
Splat(parts) == [i \in 1..Len(parts) |-> Strip(parts[i])]

\* the mapping export_file derives from the response headers (None: the
\* response has no content-type header)
ContentMap(headers) ==
    IF headers = None
      THEN << >>
      ELSE Dict(KeyValues(SelectSeq(Splat(Split(headers[1], ";")),
                                    LAMBDA kv : Contains(kv, "="))))

\* what export_file returns for the content and headers of the response
FileMap(content, headers) == << content, ContentMap(headers) >>

\* the keyword arguments the three file methods pass to _call_api (file by
\* import_file alone)
FileCallKeywords(with_file) ==
    {"payload", "return_type", "return_coroutine", "kwargs"}
        \cup (IF with_file THEN {"file"} ELSE {})

\* _build_payload of the file methods; with_instance: the method has a
\* repeat_instance and it is truthy; instance: the value to send
FilePayload(c, action, record, field, event, with_instance, instance) ==
    SetItemIf(with_instance,
        SetItemIf(Truthy(event),
            SetItem(SetItem(SetItem(
                _initialize_payload(c, "file", NoneStr, NoneStr, Omitted),
                "action", action), "field", field), "record", record),
            "event", event),
        "repeat_instance", instance)

\* repeat_instance: 0 stands for None as well (both are falsy)
export_file(st, record, field, event, repeat_instance) ==
    Try(_check_file_field(st, field),
        LAMBDA k :
            Try(_call_api(k, FileCallKeywords(FALSE),
                          FilePayload(k.c, "export", record, field, event,
                                      repeat_instance # 0,
                                      ToString(repeat_instance)),
                          "file_map", NoneStr, "export_file"),
                LAMBDA r : Return(r, FileMap(r.val[1], r.val[2]))))

import_file(st, record, field, file_name, file_object, event, repeat_instance) ==
    Try(_check_file_field(st, field),
        LAMBDA k :
            _call_api(k, FileCallKeywords(TRUE),
                      FilePayload(k.c, "import", record, field, event,
                                  repeat_instance # 0, repeat_instance),
                      "empty_json", [file |-> << file_name, file_object >>],
                      "import_file"))

delete_file(st, record, field, event) ==
    Try(_check_file_field(st, field),
        LAMBDA k :
            _call_api(k, FileCallKeywords(FALSE),
                      FilePayload(k.c, "delete", record, field, event, FALSE, NoneStr),
                      "empty_json", NoneStr, "delete_file"))

-----------------------------------------------------------------------------
(* Metadata *)

\* the key f"{key}[{i}]"
IndexedKey(key, i) == key \o "[" \o ToString(i) \o "]"

\* payload[f"{key}[{i}]"] = value for every value of data, numbered from 0
RECURSIVE AddIndexed(_, _, _, _)
AddIndexed(payload, key, data, i) ==
    IF i >= Len(data)
      THEN payload
      ELSE AddIndexed(SetItem(payload, IndexedKey(key, i), data[i + 1]),
                      key, data, i + 1)

\* Base._read_csv: the frame pandas reads from the text, the empty frame
\* when the text is empty (EmptyDataError)
_read_csv(text, index_col) ==
    IF Len(text) = 0
      THEN [read_csv |-> << >>, index_col |-> NoneStr]
      ELSE [read_csv |-> text, index_col |-> index_col]

\* a return type or the exception of its lookup, as a run
Looked(st, lk) == IF lk.exc # NoExc THEN Raise(st, lk.exc) ELSE Return(st, lk.val)

\* fields, forms: the empty list stands for None as well (both are falsy);
\* df_kwargs: NoneStr or the index_col to pass on
export_metadata(st, format_type, fields, forms, df_kwargs) ==
    Try(Looked(st, _lookup_return_type(format_type, Omitted, NoneStr)),
        LAMBDA lk :
            Try(_call_api(lk, {},
                          AddIndexed(
                              AddIndexed(
                                  _initialize_payload(st.c, "metadata", format_type,
                                                      NoneStr, Omitted),
                                  "fields", fields, 0),
                              "forms", forms, 0),
                          lk.val, NoneStr, "export_metadata"),
                LAMBDA r :
                    IF format_type \in {"json", "csv", "xml"}
                      THEN r
                      ELSE Return(r, _read_csv(r.val,
                                               IF df_kwargs = NoneStr
                                                 THEN "field_name" ELSE df_kwargs))))

import_metadata(st, to_import, return_format_type, import_format, date_format) ==
    Try(_initialize_import_payload(st, to_import, import_format, return_format_type,
                                   "metadata"),
        LAMBDA p :
            Try(Looked(p, _lookup_return_type(return_format_type, "import", NoneStr)),
                LAMBDA lk :
                    _call_api(lk, {}, SetItem(p.val, "dateFormat", date_format),
                              lk.val, NoneStr, "import_metadata")))

-----------------------------------------------------------------------------
(* Arguments the calls are made with *)

Contents == {"record", "metadata", "file", "formEventMapping"}
FormatTypes == {"json", "csv", "xml", "df"}
ReturnFormatTypes == {"json", "csv", "xml"}
RecordTypes == {"flat", "eav"}
RequestTypes == {"export", "import", "delete"}
ImportRecordsFormats == {"count", "auto_ids", "ids", "nothing"}
DataTypes == {"record", "metadata"}
FieldArgs == {"record_id", "upload_field", "missing", ""}

Frame1 == Frame(<< "field_1" >>, << << "1" >>, << "2" >> >>, << << "x" >>, << "y" >> >>)
Frame2 == Frame(<< "field_1" >>, << << "1", "event_1_arm_1" >> >>, << << "x" >> >>)

\* (import_format, to_import, return_format_type, date_format) of an import:
\* every import_format with data of the kind it announces, every
\* return_format_type and every date_format
Imports ==
    { << "df", Frame1, "json", "YMD" >>,
      << "df", Frame2, "csv", "MDY" >>,
      << "json", << Row("record_id", "text") >>, "xml", "DMY" >>,
      << "csv", "field_name,field_type\nrecord_id,text\n", "json", "YMD" >>,
      << "xml", "<records></records>", "csv", "MDY" >> }

\* (format_type, fields, forms, df_kwargs) of export_metadata
Exports ==
    { << "json", << >>, << >>, NoneStr >>,
      << "csv", << "record_id", "upload_field" >>, << "form_1" >>, NoneStr >>,
      << "xml", << >>, << >>, NoneStr >>,
      << "df", << >>, << >>, NoneStr >>,
      << "df", << "record_id" >>, << >>, "form_name" >> }

\* (event, repeat_instance) of a file operation
Instances == { << NoneStr, 0 >>, << "event_1_arm_1", 1 >> }

\* The responses the remote side has ready for the n requests a call can
\* send: one for each.  (Head of an empty sequence is an error, so a call
\* that sent more would not go unnoticed.)
ResponseSeqs(n) == [1..n -> Responses]

-----------------------------------------------------------------------------
(* The state machine *)

SentBy(sent, by) == Cardinality({i \in 1..Len(sent) : sent[i].by = by})

\* The call op(args) ran as r says: the client is as r left it and the
\* call is on record, with the client as it was when the call started.
Finish(op, args, r) ==
    /\ metaReqs + probeReqs + SentBy(r.sent, "metadata")
          + SentBy(r.sent, "is_longitudinal") <= MaxRequests
    /\ _metadata' = r.c._metadata
    /\ _field_names' = r.c._field_names
    /\ _def_field' = r.c._def_field
    /\ _is_longitudinal' = r.c._is_longitudinal
    /\ metaReqs' = metaReqs + SentBy(r.sent, "metadata")
    /\ probeReqs' = probeReqs + SentBy(r.sent, "is_longitudinal")
    /\ call' = [op |-> op, args |-> args, pre |-> Client,
                exc |-> r.exc, ret |-> r.val, sent |-> r.sent]
    /\ UNCHANGED << _url, _token, threads >>

NoCall == [op |-> "__init__", args |-> << >>, pre |-> << >>,
           exc |-> NoExc, ret |-> None, sent |-> << >>]

\* Base.__init__ with a valid url and token
Init ==
    /\ _url = ValidUrl
    /\ _token = ValidToken
    /\ _metadata = None
    /\ _field_names = None
    /\ _def_field = None
    /\ _is_longitudinal = None
    /\ metaReqs = 0
    /\ probeReqs = 0
    /\ threads = << >>
    /\ call = NoCall

GetMetadata ==
    \E rs \in ResponseSeqs(1) : Finish("metadata", << >>, metadata(Start(Client, rs)))

GetFieldNames ==
    \E rs \in ResponseSeqs(1) : Finish("field_names", << >>, field_names(Start(Client, rs)))

GetDefField ==
    \E rs \in ResponseSeqs(1) : Finish("def_field", << >>, def_field(Start(Client, rs)))

GetIsLongitudinal ==
    \E rs \in ResponseSeqs(1) :
        Finish("is_longitudinal", << >>, is_longitudinal(Start(Client, rs)))

InitializeImportPayload ==
    \E imp \in Imports, data_type \in DataTypes :
        \E rs \in ResponseSeqs(IF imp[1] = "df" /\ data_type = "record"
                                 THEN 2 ELSE 0) :
            Finish("_initialize_import_payload",
                   [to_import |-> imp[2], import_format |-> imp[1],
                    return_format_type |-> imp[3], data_type |-> data_type],
                   _initialize_import_payload(Start(Client, rs), imp[2], imp[1],
                                              imp[3], data_type))

ExportMetadata ==
    \E exp \in Exports, rs \in ResponseSeqs(1) :
        Finish("export_metadata",
               [format_type |-> exp[1], fields |-> exp[2], forms |-> exp[3],
                df_kwargs |-> exp[4]],
               export_metadata(Start(Client, rs), exp[1], exp[2], exp[3], exp[4]))

ImportMetadata ==
    \E imp \in Imports, rs \in ResponseSeqs(1) :
        Finish("import_metadata",
               [to_import |-> imp[2], import_format |-> imp[1],
                return_format_type |-> imp[3], date_format |-> imp[4]],
               import_metadata(Start(Client, rs), imp[2], imp[3], imp[1], imp[4]))

ExportFile ==
    \E field \in FieldArgs, inst \in Instances, rs \in ResponseSeqs(1) :
        Finish("export_file",
               [record |-> "1", field |-> field, event |-> inst[1],
                repeat_instance |-> inst[2]],
               export_file(Start(Client, rs), "1", field, inst[1], inst[2]))

ImportFile ==
    \E field \in FieldArgs, inst \in Instances, rs \in ResponseSeqs(1) :
        Finish("import_file",
               [record |-> "1", field |-> field, event |-> inst[1],
                repeat_instance |-> inst[2], file_name |-> "myupload.txt"],
               import_file(Start(Client, rs), "1", field, "myupload.txt",
                           "<file object>", inst[1], inst[2]))

DeleteFile ==
    \E field \in FieldArgs, inst \in Instances, rs \in ResponseSeqs(1) :
        Finish("delete_file",
               [record |-> "1", field |-> field, event |-> inst[1]],
               delete_file(Start(Client, rs), "1", field, inst[1]))

Next ==
    \/ GetMetadata
    \/ GetFieldNames
    \/ GetDefField
    \/ GetIsLongitudinal
    \/ InitializeImportPayload
    \/ ExportMetadata
    \/ ImportMetadata
    \/ ExportFile
    \/ ImportFile
    \/ DeleteFile

Spec == Init /\ [][Next]_vars

-----------------------------------------------------------------------------
(* The pure functions on their own: every argument combination *)

LookupReturnType ==
    \E format_type \in FormatTypes \cup {"bogus"},
       request_type \in RequestTypes \cup {Omitted, "bogus"},
       import_records_format \in ImportRecordsFormats \cup {NoneStr, "", "bogus"} :
        Finish("_lookup_return_type",
               [format_type |-> format_type, request_type |-> request_type,
                import_records_format |-> import_records_format],
               Looked(Start(Client, << >>),
                      _lookup_return_type(format_type, request_type,
                                          import_records_format)))

SpecLookup == Init /\ [][LookupReturnType]_vars

\* a client of either token
InitPayload ==
    /\ _url = ValidUrl
    /\ _token \in Tokens
    /\ _metadata = None
    /\ _field_names = None
    /\ _def_field = None
    /\ _is_longitudinal = None
    /\ metaReqs = 0
    /\ probeReqs = 0
    /\ threads = << >>
    /\ call = NoCall

InitializePayload ==
    \E content \in Contents,
       format_type \in FormatTypes \cup {NoneStr},
       return_format_type \in ReturnFormatTypes \cup {NoneStr},
       record_type \in RecordTypes \cup {Omitted} :
        Finish("_initialize_payload",
               [content |-> content, format_type |-> format_type,
                return_format_type |-> return_format_type,
                record_type |-> record_type],
               Return(Start(Client, << >>),
                      _initialize_payload(Client, content, format_type,
                                          return_format_type, record_type)))

SpecPayload == InitPayload /\ [][InitializePayload]_vars

\* the characters content-type headers are made of here
HeaderChars == {"a", "b", "=", ";", "\"", " "}

\* 'attachment; name="x.txt"; charset=UTF-8'
ExampleHeader ==
    << "a", "t", "t", "a", "c", "h", "m", "e", "n", "t", ";", " ",
       "n", "a", "m", "e", "=", "\"", "x", ".", "t", "x", "t", "\"", ";", " ",
       "c", "h", "a", "r", "s", "e", "t", "=", "U", "T", "F", "-", "8" >>

\* the headers of a file response: without content-type, or with one
HeaderArgs ==
    {None} \cup {Some(ExampleHeader)}
    \cup {Some(h) : h \in UNION {[1..n -> HeaderChars] : n \in 0..MaxHeaderLen}}

\* the file response is in: the part of export_file that follows _call_api
\* has its content and headers
InitFileMap ==
    /\ _url = ValidUrl
    /\ _token = ValidToken
    /\ _metadata = None
    /\ _field_names = None
    /\ _def_field = None
    /\ _is_longitudinal = None
    /\ metaReqs = 0
    /\ probeReqs = 0
    /\ threads = << >>
    /\ \E headers \in HeaderArgs :
          call = [op |-> "file response",
                  args |-> [content |-> "hi", headers |-> headers],
                  pre |-> << >>, exc |-> NoExc, ret |-> None, sent |-> << >>]

DecodeFileMap ==
    /\ call.op = "file response"
    /\ Finish("file_map", call.args,
              Return(Start(Client, << >>),
                     FileMap(call.args.content, call.args.headers)))

SpecFileMap == InitFileMap /\ [][DecodeFileMap]_vars

\* the characters urls are made of here
UrlChars == {"/", "a", "p", "i"}

\* the urls given to the constructor, character by character
UrlArgs == UNION {[1..n -> UrlChars] : n \in 0..MaxUrlLen}

\* the lengths of the tokens given to the constructor
TokenLens == {0, 1} \cup (31..MaxTokenLen)

\* the tokens given to the constructor, character by character
TokenArgs == {[i \in 1..n |-> ch] : n \in TokenLens, ch \in {"0", "F"}}

\* Base(url, token) is about to run: the instance has no attribute yet
InitConstruct ==
    /\ _url = Unbound
    /\ _token = Unbound
    /\ _metadata = Unbound
    /\ _field_names = Unbound
    /\ _def_field = Unbound
    /\ _is_longitudinal = Unbound
    /\ metaReqs = 0
    /\ probeReqs = 0
    /\ threads = << >>
    /\ call = [op |-> "__new__", args |-> << >>, pre |-> << >>,
               exc |-> NoExc, ret |-> None, sent |-> << >>]

\* __init__(url, token) ran as r says
Constructed(url, token, r) ==
    /\ _url' = r.c._url
    /\ _token' = r.c._token
    /\ _metadata' = r.c._metadata
    /\ _field_names' = r.c._field_names
    /\ _def_field' = r.c._def_field
    /\ _is_longitudinal' = r.c._is_longitudinal
    /\ metaReqs' = metaReqs + SentBy(r.sent, "metadata")
    /\ probeReqs' = probeReqs + SentBy(r.sent, "is_longitudinal")
    /\ call' = [op |-> "__init__", args |-> [url |-> url, token |-> token],
                pre |-> Client, exc |-> r.exc, ret |-> r.val, sent |-> r.sent]
    /\ UNCHANGED threads

Construct ==
    /\ call.op = "__new__"
    /\ \E url \in UrlArgs, token \in TokenArgs :
          Constructed(url, token, __init__(Start(Blank, << >>), url, token))

SpecConstruct == InitConstruct /\ [][Construct]_vars

-----------------------------------------------------------------------------
(* Properties *)

Accessors == {"metadata", "field_names", "def_field", "is_longitudinal"}
FileOps == {"export_file", "import_file", "delete_file"}
Operations == {"export_metadata", "import_metadata"} \cup FileOps

\* the call on record returned val
ReturnedVal(val) == call.exc = NoExc /\ call.ret = val

\* the response to the i-th request of the call on record
Resp(i) == call.sent[i].resp

\* the rows of the resolver table
NoSubtype(s) == s \in {NoneStr, ""}
InTable(format_type, request_type, import_subtype) ==
    \/ format_type = "json" /\ request_type \in {"export", Omitted}
    \/ format_type = "json" /\ request_type \in {"import", "delete"}
          /\ NoSubtype(import_subtype)
    \/ format_type = "json" /\ request_type = "import"
          /\ import_subtype \in {"count", "auto_ids", "ids", "nothing"}
    \/ format_type \in {"csv", "xml", "df"}

\* C1: for every row of the resolver table _lookup_return_type returns the
\* listed shape: json+export -> json; json+import/delete without a subtype ->
\* int; json+import with count or auto_ids -> count_dict, with ids ->
\* ids_list, with nothing -> empty_json; csv, xml, df -> str whatever the
\* rest; an omitted request_type counts as export.
C1_LookupFollowsTable ==
    call.op = "_lookup_return_type" =>
        LET f == call.args.format_type
            r == call.args.request_type
            t == call.args.import_records_format
        IN  /\ (f = "json" /\ r \in {"export", Omitted}) => ReturnedVal("json")
            /\ (f = "json" /\ r \in {"import", "delete"} /\ NoSubtype(t))
                  => ReturnedVal("int")
            /\ (f = "json" /\ r = "import" /\ t \in {"count", "auto_ids"})
                  => ReturnedVal("count_dict")
            /\ (f = "json" /\ r = "import" /\ t = "ids") => ReturnedVal("ids_list")
            /\ (f = "json" /\ r = "import" /\ t = "nothing")
                  => ReturnedVal("empty_json")
            /\ (f \in {"csv", "xml", "df"}) => ReturnedVal("str")

C1_Witness ==
    /\ call.op = "_lookup_return_type"
    /\ call.args = [format_type |-> "json", request_type |-> "import",
                    import_records_format |-> "ids"]
    /\ ReturnedVal("ids_list")

\* C2: for every input that is not a row of the resolver table
\* _lookup_return_type raises ValueError and returns no shape.
C2_OutsideTableRaisesValueError ==
    (/\ call.op = "_lookup_return_type"
     /\ ~InTable(call.args.format_type, call.args.request_type,
                 call.args.import_records_format))
        => call.exc = "ValueError"

\* the call on record is a first access of is_longitudinal
FirstLongitudinalAccess ==
    call.op = "is_longitudinal" /\ call.pre._is_longitudinal = None

NoEventsError(resp) == resp.kind = "RedcapError" /\ resp.reason = "no_events"

\* C3: on the first access of is_longitudinal a probe failure other than the
\* remote error for "no events defined" propagates: the access raises and
\* the cached flag stays unset.
C3_OtherProbeFailurePropagates ==
    (/\ FirstLongitudinalAccess
     /\ Len(call.sent) = 1
     /\ Resp(1).kind # "ok"
     /\ ~NoEventsError(Resp(1)))
        => (call.exc # NoExc /\ _is_longitudinal = None)

\* C4: the first access of is_longitudinal issues exactly one request, for
\* formEventMapping; it returns true when the request succeeds and false,
\* without raising, when it fails with the remote error for "no events
\* defined"; the value returned is the value cached.
C4_FirstAccessProbesOnce ==
    FirstLongitudinalAccess =>
        /\ Len(call.sent) = 1
        /\ call.sent[1].payload["content"] = "formEventMapping"
        /\ Resp(1).kind = "ok" => ReturnedVal(TRUE)
        /\ NoEventsError(Resp(1)) => ReturnedVal(FALSE)
        /\ call.exc = NoExc => _is_longitudinal = Some(call.ret)

C4_Witness ==
    /\ FirstLongitudinalAccess
    /\ NoEventsError(Resp(1))
    /\ ReturnedVal(FALSE)
    /\ _is_longitudinal = Some(FALSE)

\* the memoized value of an accessor in a client
Memo(c, accessor) ==
    CASE accessor = "metadata" -> c._metadata
      [] accessor = "field_names" -> c._field_names
      [] accessor = "def_field" -> c._def_field
      [] accessor = "is_longitudinal" -> c._is_longitudinal

\* Once memoized a value is returned as it is, without a request; a value
\* that is set is never changed by any call; an accessor that returns has
\* memoized what it returns; an accessor sends at most one metadata request
\* and one probe, and only while the value they load is unset.
MemoizedOnce ==
    /\ call.op \in Accessors =>
          /\ Memo(call.pre, call.op) # None =>
                (Len(call.sent) = 0 /\ call.exc = NoExc
                    /\ Some(call.ret) = Memo(call.pre, call.op))
          /\ call.exc = NoExc => Memo(Client, call.op) = Some(call.ret)
          /\ SentBy(call.sent, "metadata") <= 1
          /\ SentBy(call.sent, "is_longitudinal") <= 1
          /\ Len(call.sent)
                = SentBy(call.sent, "metadata") + SentBy(call.sent, "is_longitudinal")
    /\ call.op # "__init__" =>
          /\ \A a \in Accessors :
                Memo(call.pre, a) # None => Memo(Client, a) = Memo(call.pre, a)
          /\ SentBy(call.sent, "metadata") > 0 => call.pre._metadata = None
          /\ SentBy(call.sent, "is_longitudinal") > 0
                => call.pre._is_longitudinal = None

NotAFileField(field, md) ==
    ~ \E i \in 1..Len(md) : md[i].field_name = field /\ md[i].field_type = "file"

\* C6 as amended: a file operation called with a field that is not a project
\* field of type file raises ValueError before any request for the file: the
\* only request the call can have issued by then is the one metadata export
\* that loads the project fields, issued exactly when they are unset at the
\* start of the call.
C6_ValueErrorBeforeFileRequest ==
    call.op \in FileOps =>
        /\ (_metadata # None /\ NotAFileField(call.args.field, _metadata[1]))
              => call.exc = "ValueError"
        /\ call.exc = "ValueError" =>
              /\ Len(call.sent) = (IF call.pre._metadata = None THEN 1 ELSE 0)
              /\ \A i \in 1..Len(call.sent) :
                    /\ call.sent[i].by = "metadata"
                    /\ call.sent[i].payload["content"] = "metadata"

\* a fresh client is asked to export a field that is no file field
C6_Witness ==
    /\ call.op = "export_file"
    /\ call.pre._metadata = None
    /\ call.args.field = "record_id"
    /\ call.exc = "ValueError"
    /\ Len(call.sent) = 1

\* C6: a file operation called with a field that is not a project field of
\* type file raises ValueError before any network activity, whatever the
\* state of the memoized fields at the start of the call.
C6_ValueErrorBeforeAnyRequest ==
    (call.op \in FileOps /\ call.exc = "ValueError") => Len(call.sent) = 0

\* C7: every call of export_metadata, import_metadata, export_file,
\* import_file or delete_file whose arguments pass the precondition check
\* issues exactly one request, from any state of the client.
C7_ExactlyOneRequestPerCall ==
    (call.op \in Operations /\ call.exc # "ValueError") => Len(call.sent) = 1

\* C8: the payload of _initialize_payload has the client's token under token
\* and the content under content, and has the key type if and only if the
\* content is "record", with the value record_type ("flat" when not given).
C8_BasePayloadKeys ==
    call.op = "_initialize_payload" =>
        LET payload == call.ret
        IN  /\ call.exc = NoExc
            /\ {"token", "content"} \subseteq DOMAIN payload
            /\ payload["token"] = _token
            /\ payload["content"] = call.args.content
            /\ ("type" \in DOMAIN payload) <=> (call.args.content = "record")
            /\ call.args.content = "record" =>
                  payload["type"] = (IF call.args.record_type = Omitted
                                       THEN "flat" ELSE call.args.record_type)

C8_Witness ==
    /\ call.op = "_initialize_payload"
    /\ call.args.content = "record"
    /\ call.args.record_type = Omitted
    /\ call.ret["type"] = "flat"

\* C9: _initialize_import_payload with import_format df serializes a record
\* frame with the row labels (def_field, "redcap_event_name") when the
\* project is longitudinal and with def_field alone when it is not, and a
\* metadata frame without row labels; the text is stored under data and the
\* format is csv.
C9_FrameRowLabels ==
    (/\ call.op = "_initialize_import_payload"
     /\ call.args.import_format = "df"
     /\ call.exc = NoExc)
        => LET frame == call.args.to_import
               data == call.ret["data"]
               labelled == [i \in 1..Len(frame.rows) |->
                               frame.index[i] \o frame.rows[i]]
           IN  /\ call.ret["format"] = "csv"
               /\ (call.args.data_type = "record" /\ _is_longitudinal = Some(TRUE))
                     => /\ data.header = << _def_field[1], "redcap_event_name" >>
                                            \o frame.columns
                        /\ data.lines = labelled
               /\ (call.args.data_type = "record" /\ _is_longitudinal # Some(TRUE))
                     => /\ data.header = << _def_field[1] >> \o frame.columns
                        /\ data.lines = labelled
               /\ call.args.data_type = "metadata"
                     => /\ data.header = frame.columns
                        /\ data.lines = frame.rows

C9_Witness ==
    /\ call.op = "_initialize_import_payload"
    /\ call.args.import_format = "df"
    /\ call.args.data_type = "record"
    /\ call.exc = NoExc
    /\ _is_longitudinal = Some(TRUE)
    /\ call.ret["data"].header = << "record_id", "redcap_event_name", "field_1" >>

\* s.strip('"'): without leading and trailing double quotes
RECURSIVE StripQuotes(_)
StripQuotes(s) ==
    IF Len(s) = 0 THEN s
    ELSE IF s[1] = "\"" THEN StripQuotes(Tail(s))
    ELSE IF s[Len(s)] = "\"" THEN StripQuotes(SubSeq(s, 1, Len(s) - 1))
    ELSE s

\* the mapping as the claim describes it: the segments between ';' that have
\* an '=', the key before the first '=', the value all that follows it
\* without its surrounding double quotes
ClaimedContentMap(headers) ==
    IF headers = None
      THEN << >>
      ELSE LET parts == Split(headers[1], ";")
               segs == SelectSeq([i \in 1..Len(parts) |-> Strip(parts[i])],
                                 LAMBDA kv : Contains(kv, "="))
           IN  Dict([i \in 1..Len(segs) |->
                        LET eq == Find(segs[i], "=")
                        IN  << SubSeq(segs[i], 1, eq - 1),
                               StripQuotes(SubSeq(segs[i], eq + 1, Len(segs[i]))) >>])

\* C10: the mapping export_file returns is, for every content-type header,
\* the one with the text before the first '=' of a segment as key and all
\* the text after it, without surrounding double quotes, as value; it is
\* empty without the header.
C10_ContentMapAsClaimed ==
    call.op = "file_map" =>
        call.ret = << call.args.content, ClaimedContentMap(call.args.headers) >>

\* url ends with "/api/"
EndsWithApi(url) ==
    /\ Len(url) >= 5
    /\ \A i \in 1..5 : url[Len(url) - 5 + i] = UrlExpectedLast5[i]

\* no attribute is bound: the caller has no client
NoClient == Client = Blank

\* C11: constructing a client with a url that does not end with "/api/" or
\* with a token that is not exactly 32 characters long fails without a
\* request and yields no client; with a valid url and token it succeeds,
\* issues no request, keeps the url and the token and leaves metadata,
\* field_names, def_field and is_longitudinal unset.
C11_ConstructorValidates ==
    call.op = "__init__" =>
        /\ Len(call.sent) = 0
        /\ metaReqs = 0
        /\ probeReqs = 0
        /\ IF EndsWithApi(call.args.url) /\ Len(call.args.token) = 32
             THEN /\ call.exc = NoExc
                  /\ _url = call.args.url
                  /\ _token = call.args.token
                  /\ _metadata = None
                  /\ _field_names = None
                  /\ _def_field = None
                  /\ _is_longitudinal = None
             ELSE /\ call.exc = "AssertionError"
                  /\ NoClient

\* a url that ends with "/api/" and a token one character too long: rejected
C11_Witness ==
    /\ call.op = "__init__"
    /\ EndsWithApi(call.args.url)
    /\ Len(call.args.url) = 6
    /\ Len(call.args.token) = 33
    /\ call.exc = "AssertionError"
    /\ NoClient

\* the three attributes loaded from the data dictionary
MetadataAccessors == {"metadata", "field_names", "def_field"}

\* C13: def_field is set only when field_names is, and is its first entry;
\* field_names is set only when metadata is, and is the field_name of every
\* metadata row in order; an access of is_longitudinal leaves metadata,
\* field_names and def_field as they were, and an access of one of those
\* three leaves the longitudinal flag as it was.
C13_DependencyOrder ==
    /\ _def_field # None =>
          /\ _field_names # None
          /\ Len(_field_names[1]) > 0
          /\ _def_field[1] = _field_names[1][1]
    /\ _field_names # None =>
          /\ _metadata # None
          /\ Len(_field_names[1]) = Len(_metadata[1])
          /\ \A i \in 1..Len(_metadata[1]) :
                _field_names[1][i] = _metadata[1][i].field_name
    /\ call.op = "is_longitudinal" =>
          /\ _metadata = call.pre._metadata
          /\ _field_names = call.pre._field_names
          /\ _def_field = call.pre._def_field
    /\ call.op \in MetadataAccessors =>
          _is_longitudinal = call.pre._is_longitudinal

\* def_field has loaded all three on a client whose flag was already set
C13_Witness ==
    /\ call.op = "def_field"
    /\ call.pre._metadata = None
    /\ call.pre._is_longitudinal # None
    /\ _metadata # None
    /\ _field_names # None
    /\ _def_field = Some("record_id")
    /\ _is_longitudinal = call.pre._is_longitudinal

\* C14: an access of metadata, field_names or def_field that finds metadata
\* unset issues the metadata request, once; when that request fails the
\* error reaches the caller and metadata, field_names and def_field are all
\* still unset, so the next access to any of them issues the request again.
C14_FailedMetadataNotCached ==
    (call.op \in MetadataAccessors /\ call.pre._metadata = None) =>
        /\ call.pre._field_names = None
        /\ call.pre._def_field = None
        /\ Len(call.sent) = 1
        /\ call.sent[1].by = "metadata"
        /\ call.sent[1].payload["content"] = "metadata"
        /\ Resp(1).kind # "ok" =>
              /\ call.exc = Resp(1).kind
              /\ _metadata = None
              /\ _field_names = None
              /\ _def_field = None

\* the metadata request failed before; field_names issues it again and it
\* fails again
C14_Witness ==
    /\ call.op = "field_names"
    /\ call.pre._metadata = None
    /\ metaReqs = 2
    /\ Len(call.sent) = 1
    /\ call.sent[1].by = "metadata"
    /\ Resp(1).kind = "RedcapError"
    /\ call.exc = "RedcapError"
    /\ _metadata = None
    /\ _field_names = None
    /\ _def_field = None

-----------------------------------------------------------------------------
(* The accessors run by threads that share the client.  Nothing in Base     *)
(* locks: a thread can be preempted between any two statements, so each     *)
(* step here is one statement of one thread: the test of the attribute,     *)
(* the request, the assignment, the return.                                 *)

Threads == 1..NumThreads

\* A thread's access.  op: the accessor it called; stack: the accessors it
\* is inside of, the innermost last; pc: its position in the innermost;
\* val: the value the last request or inner accessor gave it; pre: the
\* attribute of op as the access found it; sent: the requests it has sent;
\* wrote: its assignments <<accessor, value>> in order; exc, ret: how the
\* access ended.
Idle == [op |-> "idle", stack |-> << >>, pc |-> "idle", val |-> None,
         pre |-> None, sent |-> 0, wrote |-> << >>, exc |-> NoExc,
         ret |-> None]

\* the accessor a thread is inside of
Top(f) == f.stack[Len(f.stack)]

\* the attribute of an accessor in the client as it is now
Attr(accessor) ==
    CASE accessor = "metadata" -> _metadata
      [] accessor = "field_names" -> _field_names
      [] accessor = "def_field" -> _def_field
      [] accessor = "is_longitudinal" -> _is_longitudinal

\* the accessor that field_names (through _filter_metadata) and def_field read
Callee(accessor) == IF accessor = "def_field" THEN "field_names" ELSE "metadata"

\* if self._x is None: the attribute is set and the accessor goes to its
\* return statement; it is None and the accessor goes on to its request
\* (metadata, is_longitudinal) or into the accessor it reads
Tested(f) ==
    IF Attr(Top(f)) # None
      THEN [f EXCEPT !.pc = "return"]
    ELSE IF Top(f) \in {"metadata", "is_longitudinal"}
      THEN [f EXCEPT !.pc = "request"]
    ELSE [f EXCEPT !.stack = Append(@, Callee(Top(f))), !.pc = "test"]

\* the access ends with an exception: no accessor but is_longitudinal has
\* an except clause, so it propagates to the thread
Failed(f, exc) == [f EXCEPT !.pc = "done", !.exc = exc, !.stack = << >>]

\* the request of metadata or of is_longitudinal, answered by resp
Requested(accessor, resp) ==
    IF accessor = "metadata"
      THEN _call_api(Start(Client, << resp >>), {},
                     _initialize_payload(Client, "metadata", "json", NoneStr, Omitted),
                     "json", NoneStr, "metadata")
      ELSE Probe(Start(Client, << resp >>))

\* the thread after its request ran as r says: metadata holds the body;
\* is_longitudinal holds True, or False after a RedcapError
Received(f, r) ==
    IF Top(f) = "metadata"
      THEN IF r.exc # NoExc
             THEN Failed([f EXCEPT !.sent = @ + 1], r.exc)
             ELSE [f EXCEPT !.sent = @ + 1, !.val = r.val, !.pc = "assign"]
    ELSE IF r.exc \notin {NoExc, "RedcapError"}
      THEN Failed([f EXCEPT !.sent = @ + 1], r.exc)
    ELSE [f EXCEPT !.sent = @ + 1, !.val = (r.exc = NoExc), !.pc = "assign"]

\* the value the accessor assigns to its attribute, from what it holds
Computed(f) ==
    CASE Top(f) = "field_names" -> Column(f.val, "field_name")
      [] Top(f) = "def_field" -> f.val[1]
      [] OTHER -> f.val

\* self._x = value
Assign(accessor, value) ==
    /\ _metadata' = IF accessor = "metadata" THEN Some(value) ELSE _metadata
    /\ _field_names' = IF accessor = "field_names" THEN Some(value) ELSE _field_names
    /\ _def_field' = IF accessor = "def_field" THEN Some(value) ELSE _def_field
    /\ _is_longitudinal' =
          IF accessor = "is_longitudinal" THEN Some(value) ELSE _is_longitudinal

\* return self._x: the attribute is read again; the value goes to the
\* accessor that called, or ends the access
Returning(f) ==
    IF Len(f.stack) = 1
      THEN [f EXCEPT !.pc = "done", !.ret = Attr(Top(f))[1], !.stack = << >>]
      ELSE [f EXCEPT !.pc = "assign", !.val = Attr(Top(f))[1],
                     !.stack = SubSeq(@, 1, Len(@) - 1)]

\* a client just constructed, and no thread has called yet
InitThreads ==
    /\ _url = ValidUrl
    /\ _token = ValidToken
    /\ _metadata = None
    /\ _field_names = None
    /\ _def_field = None
    /\ _is_longitudinal = None
    /\ metaReqs = 0
    /\ probeReqs = 0
    /\ call = NoCall
    /\ threads = [t \in Threads |-> Idle]

\* Thread t calls an accessor and runs its test of the attribute.  (The
\* threads are numbered in the order of their calls.)
ThreadCall(t) ==
    /\ threads[t].pc = "idle"
    /\ t > 1 => threads[t - 1].pc # "idle"
    /\ \E accessor \in Accessors :
          threads' = [threads EXCEPT ![t] =
                         Tested([Idle EXCEPT !.op = accessor,
                                             !.stack = << accessor >>,
                                             !.pre = Attr(accessor)])]
    /\ UNCHANGED << _url, _token, _metadata, _field_names, _def_field,
                    _is_longitudinal, call, metaReqs, probeReqs >>

\* the test of the attribute in an accessor called by another accessor
ThreadTest(t) ==
    /\ threads[t].pc = "test"
    /\ threads' = [threads EXCEPT ![t] = Tested(threads[t])]
    /\ UNCHANGED << _url, _token, _metadata, _field_names, _def_field,
                    _is_longitudinal, call, metaReqs, probeReqs >>

\* self._call_api(payload, return_type="json")
ThreadRequest(t) ==
    /\ threads[t].pc = "request"
    /\ \E resp \in Responses :
          threads' = [threads EXCEPT ![t] =
                         Received(threads[t], Requested(Top(threads[t]), resp))]
    /\ metaReqs' = metaReqs + IF Top(threads[t]) = "metadata" THEN 1 ELSE 0
    /\ probeReqs' = probeReqs + IF Top(threads[t]) = "is_longitudinal" THEN 1 ELSE 0
    /\ UNCHANGED << _url, _token, _metadata, _field_names, _def_field,
                    _is_longitudinal, call >>

\* self._x = ...; self.field_names[0] of an empty list is an IndexError
ThreadAssign(t) ==
    /\ threads[t].pc = "assign"
    /\ IF Top(threads[t]) = "def_field" /\ Len(threads[t].val) = 0
         THEN /\ threads' = [threads EXCEPT ![t] = Failed(threads[t], "IndexError")]
              /\ UNCHANGED << _metadata, _field_names, _def_field, _is_longitudinal >>
         ELSE /\ Assign(Top(threads[t]), Computed(threads[t]))
              /\ threads' = [threads EXCEPT ![t] =
                                 [threads[t] EXCEPT
                                     !.pc = "return",
                                     !.wrote = Append(@, << Top(threads[t]),
                                                            Computed(threads[t]) >>)]]
    /\ UNCHANGED << _url, _token, call, metaReqs, probeReqs >>

\* return self._x
ThreadReturn(t) ==
    /\ threads[t].pc = "return"
    /\ threads' = [threads EXCEPT ![t] = Returning(threads[t])]
    /\ UNCHANGED << _url, _token, _metadata, _field_names, _def_field,
                    _is_longitudinal, call, metaReqs, probeReqs >>

NextThreads ==
    \E t \in Threads :
        \/ ThreadCall(t)
        \/ ThreadTest(t)
        \/ ThreadRequest(t)
        \/ ThreadAssign(t)
        \/ ThreadReturn(t)

SpecThreads == InitThreads /\ [][NextThreads]_vars

\* the assignments made to the attribute of an accessor, by any thread
Writes(accessor) ==
    UNION {{<< t, i >> : i \in {j \in 1..Len(threads[t].wrote) :
                                    threads[t].wrote[j][1] = accessor}} :
           t \in Threads}

\* C12: in every interleaving of accesses to one client each of metadata,
\* field_names, def_field and is_longitudinal is written at most once and
\* keeps the value it was given; an access that finds its attribute set
\* sends no request and returns that value.
C12_WrittenOnceInEveryInterleaving ==
    /\ \A accessor \in Accessors : Cardinality(Writes(accessor)) <= 1
    /\ \A t \in Threads :
          \A i \in 1..Len(threads[t].wrote) :
              Attr(threads[t].wrote[i][1]) = Some(threads[t].wrote[i][2])
    /\ \A t \in Threads :
          threads[t].pre # None =>
              /\ threads[t].sent = 0
              /\ threads[t].pc = "done" =>
                    (threads[t].exc = NoExc /\ Some(threads[t].ret) = threads[t].pre)

====
